---- MODULE Spec2Model ----
(***************************************************************************)
(* A state-machine model of the ConferenceTimer React component            *)
(* (react/features/conference/components/ConferenceTimer.js).              *)
(*                                                                         *)
(* The component owns two setInterval loops: the elapsed-time loop         *)
(* (this._interval) and the countdown loop (this._countdownInterval).      *)
(* Wall-clock time is the variable `now` (milliseconds); the browser's     *)
(* timer table is modelled by the sets of scheduled interval ids and the   *)
(* set `due` of intervals whose callback is waiting to run.                *)
(*                                                                         *)
(* React semantics assumed (React 16/17 legacy mode, class component):     *)
(*   - setState called from a timer callback is applied synchronously, so  *)
(*     this.state read right after it sees the new value;                  *)
(*   - setState on an unmounted component is a no-op;                      *)
(*   - componentDidUpdate runs after every props change while mounted.     *)
(***************************************************************************)
EXTENDS Integers, FiniteSets, Sequences, TLC

VARIABLES
    props,               \* this.props: [_startTimestamp, _endTimestamp]
    state,               \* this.state: [timerValue, textStyle]
    published,           \* the values last handed to this.setState (display output)
    _interval,           \* this._interval (handle of the elapsed loop)
    _countdownInterval,  \* this._countdownInterval (handle of the countdown loop)
    elapsedLoops,        \* ids of scheduled intervals running the elapsed callback
    countdownLoops,      \* ids of scheduled intervals running the countdown callback
    due,                 \* scheduled intervals whose callback is pending
    nextId,              \* next id setInterval returns
    now,                 \* new Date().getTime()
    ticks,               \* number of clock periods elapsed (bounds the run)
    changes,             \* number of props changes so far (bounds the run)
    phase,               \* "constructed" | "mounted" | "unmounted"
    warnings,            \* number of showNotification dispatches
    terminates,          \* number of endConference dispatches
    lastOp,              \* the handler that ran last (history)
    deadlineSeen,        \* a present, changed deadline was delivered (history)
    rescheduled          \* such a deadline arrived while the countdown loop ran (history)

vars == <<props, state, published, _interval, _countdownInterval, elapsedLoops, countdownLoops,
          due, nextId, now, ticks, changes, phase, warnings, terminates, lastOp,
          deadlineSeen, rescheduled>>

----------------------------------------------------------------------------
(* Bounds and inputs *)

\* Number of one-second clock periods a run may last.
MaxTicks == 32

\* Number of props changes a run may contain.
MaxChanges == 2

\* Period of both setInterval loops, in milliseconds.
IntervalMs == 1000

\* Wall-clock time at construction.
NowInit == 100000

\* A timestamp prop that is null/undefined.
Absent == -1

\* The value of a handle field that was never assigned (undefined).
Undefined == 0

StartTimestamps == {NowInit - 65000, NowInit, NowInit + 2000}

EndTimestamps == {NowInit - 5000, NowInit + 3500, NowInit + 31000}

----------------------------------------------------------------------------
(* getLocalizedDurationFormatter: 'mm:ss', or 'h:mm:ss' from one hour on. *)

Digit(n) == <<"0", "1", "2", "3", "4", "5", "6", "7", "8", "9">>[n + 1]

Pad2(n) == Digit((n \div 10) % 10) \o Digit(n % 10)

getLocalizedDurationFormatter(ms) ==
    LET s == ms \div 1000
        h == s \div 3600
        m == (s \div 60) % 60
    IN  IF h # 0
        THEN ToString(h) \o ":" \o Pad2(m) \o ":" \o Pad2(s % 60)
        ELSE Pad2(m) \o ":" \o Pad2(s % 60)

----------------------------------------------------------------------------
(* The component instance as one record, so that a handler is the          *)
(* composition of the methods it calls.                                    *)

Self ==
    [props |-> props, state |-> state, published |-> published,
     _interval |-> _interval,
     _countdownInterval |-> _countdownInterval, elapsedLoops |-> elapsedLoops,
     countdownLoops |-> countdownLoops, due |-> due, nextId |-> nextId,
     phase |-> phase, warnings |-> warnings, terminates |-> terminates]

Commit(S) ==
    /\ props' = S.props
    /\ state' = S.state
    /\ published' = S.published
    /\ _interval' = S._interval
    /\ _countdownInterval' = S._countdownInterval
    /\ elapsedLoops' = S.elapsedLoops
    /\ countdownLoops' = S.countdownLoops
    /\ due' = S.due
    /\ nextId' = S.nextId
    /\ phase' = S.phase
    /\ warnings' = S.warnings
    /\ terminates' = S.terminates

\* JavaScript's !x for a timestamp or a handle.
Falsy(x) == x = Absent \/ x = 0

\* this.setState({ timerValue: v }): the value is handed to React, which applies
\* it to this.state unless the component is unmounted.
setTimerValue(S, v) ==
    IF S.phase = "mounted"
    THEN [S EXCEPT !.state.timerValue = v, !.published.timerValue = v]
    ELSE [S EXCEPT !.published.timerValue = v]

\* this.setState({ textStyle: v }): the value is handed to React, which applies
\* it to this.state unless the component is unmounted.
setTextStyle(S, v) ==
    IF S.phase = "mounted"
    THEN [S EXCEPT !.state.textStyle = v, !.published.textStyle = v]
    ELSE [S EXCEPT !.published.textStyle = v]

\* clearInterval(id)
clearInterval(S, id) ==
    [S EXCEPT !.elapsedLoops = @ \ {id},
              !.countdownLoops = @ \ {id},
              !.due = @ \ {id}]

\* _setStateFromUTC without its guard against absent timestamps.
_setStateFromUTCNoAbsentGuard(S, refValueUTC, currentValueUTC) ==
    IF currentValueUTC < refValueUTC
    THEN S
    ELSE setTimerValue(S, getLocalizedDurationFormatter(currentValueUTC - refValueUTC))

_setStateFromUTC(S, refValueUTC, currentValueUTC) ==
    IF Falsy(refValueUTC) \/ Falsy(currentValueUTC)
    THEN S
    ELSE IF currentValueUTC < refValueUTC
    THEN S
    ELSE setTimerValue(S, getLocalizedDurationFormatter(currentValueUTC - refValueUTC))

\* _stopTimer without its clearInterval call.
_stopTimerNoClear(S) == S

_stopTimer(S) ==
    IF ~Falsy(S._interval) THEN clearInterval(S, S._interval) ELSE S

\* _stopCountdownTimer without the reset of the published duration.
_stopCountdownTimerNoReset(S) ==
    IF ~Falsy(S._countdownInterval)
    THEN clearInterval(S, S._countdownInterval)
    ELSE S

\* _stopCountdownTimer resetting the handle it has cleared.
_stopCountdownTimerClearsHandle(S) ==
    LET S1 == IF ~Falsy(S._countdownInterval)
              THEN [clearInterval(S, S._countdownInterval)
                       EXCEPT !._countdownInterval = Undefined]
              ELSE S
    IN  setTimerValue(S1, getLocalizedDurationFormatter(0))

_stopCountdownTimer(S) ==
    LET S1 == IF ~Falsy(S._countdownInterval)
              THEN clearInterval(S, S._countdownInterval)
              ELSE S
    IN  setTimerValue(S1, getLocalizedDurationFormatter(0))

\* The callback of the elapsed loop.
elapsedCallback(S, t) ==
    _setStateFromUTC(S, S.props._startTimestamp, t)

\* The countdown callback dispatching the warning without switching the style.
countdownCallbackNoStyle(S, t) ==
    LET S1 == _setStateFromUTC(S, t, S.props._endTimestamp)
        S2 == IF S1.state.timerValue = "00:30"
              THEN [S1 EXCEPT !.warnings = @ + 1]
              ELSE S1
    IN  IF S2.state.timerValue = "00:01"
        THEN _stopCountdownTimer([S2 EXCEPT !.terminates = @ + 1])
        ELSE S2

\* The countdown callback with the elapsed callback's arguments left in place.
countdownCallbackStartTimestamp(S, t) ==
    LET S1 == _setStateFromUTC(S, S.props._startTimestamp, t)
        S2 == IF S1.state.timerValue = "00:30"
              THEN [setTextStyle(S1, "red") EXCEPT !.warnings = @ + 1]
              ELSE S1
    IN  IF S2.state.timerValue = "00:01"
        THEN _stopCountdownTimer([S2 EXCEPT !.terminates = @ + 1])
        ELSE S2

\* The callback of the countdown loop.
countdownCallback(S, t) ==
    LET S1 == _setStateFromUTC(S, t, S.props._endTimestamp)
        S2 == IF S1.state.timerValue = "00:30"
              THEN [setTextStyle(S1, "red") EXCEPT !.warnings = @ + 1]
              ELSE S1
    IN  IF S2.state.timerValue = "00:01"
        THEN _stopCountdownTimer([S2 EXCEPT !.terminates = @ + 1])
        ELSE S2

\* _startTimer without its immediate _setStateFromUTC call.
_startTimerNoPublish(S, t) ==
    IF Falsy(S._interval)
    THEN [S EXCEPT !._interval = S.nextId,
                   !.elapsedLoops = @ \cup {S.nextId},
                   !.nextId = @ + 1]
    ELSE S

_startTimer(S, t) ==
    IF Falsy(S._interval)
    THEN LET S1 == _setStateFromUTC(S, S.props._startTimestamp, t)
         IN  [S1 EXCEPT !._interval = S1.nextId,
                        !.elapsedLoops = @ \cup {S1.nextId},
                        !.nextId = @ + 1]
    ELSE S

\* _startCountdown without its guard on the handle.
_startCountdownNoGuard(S, t) ==
    LET S1 == _setStateFromUTC(S, t, S.props._endTimestamp)
    IN  [S1 EXCEPT !._countdownInterval = S1.nextId,
                   !.countdownLoops = @ \cup {S1.nextId},
                   !.nextId = @ + 1]

_startCountdown(S, t) ==
    IF Falsy(S._countdownInterval)
    THEN LET S1 == _setStateFromUTC(S, t, S.props._endTimestamp)
         IN  [S1 EXCEPT !._countdownInterval = S1.nextId,
                        !.countdownLoops = @ \cup {S1.nextId},
                        !.nextId = @ + 1]
    ELSE S

componentDidMount(S, t) == _startTimer(S, t)

\* The condition under which componentDidUpdate switches to the countdown.
DeadlineChanged(prevEnd, newEnd) == ~Falsy(newEnd) /\ prevEnd # newEnd

\* componentDidUpdate without its _stopTimer call.
componentDidUpdateNoStop(S, prevProps, t) ==
    IF DeadlineChanged(prevProps._endTimestamp, S.props._endTimestamp)
    THEN _startCountdown(S, t)
    ELSE S

componentDidUpdate(S, prevProps, t) ==
    IF DeadlineChanged(prevProps._endTimestamp, S.props._endTimestamp)
    THEN _startCountdown(_stopTimer(S), t)
    ELSE S

\* componentWillUnmount without its _stopTimer call.
componentWillUnmountNoStop(S) == S

componentWillUnmount(S) == _stopTimer(S)

----------------------------------------------------------------------------
(* The state machine *)

Init ==
    /\ props \in [_startTimestamp : StartTimestamps \cup {Absent},
                  _endTimestamp : EndTimestamps \cup {Absent}]
    /\ state = [timerValue |-> getLocalizedDurationFormatter(0), textStyle |-> "{}"]
    /\ published = state
    /\ _interval = Undefined
    /\ _countdownInterval = Undefined
    /\ elapsedLoops = {}
    /\ countdownLoops = {}
    /\ due = {}
    /\ nextId = 1
    /\ now = NowInit
    /\ ticks = 0
    /\ changes = 0
    /\ phase = "constructed"
    /\ warnings = 0
    /\ terminates = 0
    /\ lastOp = "constructor"
    /\ deadlineSeen = FALSE
    /\ rescheduled = FALSE

\* React mounts the component: componentDidMount.
Mount ==
    /\ phase = "constructed"
    /\ Commit(componentDidMount([Self EXCEPT !.phase = "mounted"], now))
    /\ lastOp' = "componentDidMount"
    /\ UNCHANGED <<now, ticks, changes, deadlineSeen, rescheduled>>

\* The store supplies new props: re-render, then componentDidUpdate(prevProps).
\* The start timestamp, once known, does not change.
PropsChange(newStart, newEnd) ==
    /\ phase = "mounted"
    /\ changes < MaxChanges
    /\ <<newStart, newEnd>> # <<props._startTimestamp, props._endTimestamp>>
    /\ props._startTimestamp # Absent => newStart = props._startTimestamp
    /\ LET newProps == [_startTimestamp |-> newStart, _endTimestamp |-> newEnd]
       IN  Commit(componentDidUpdate([Self EXCEPT !.props = newProps], props, now))
    /\ lastOp' = "componentDidUpdate"
    /\ changes' = changes + 1
    /\ deadlineSeen' = (deadlineSeen \/ DeadlineChanged(props._endTimestamp, newEnd))
    /\ rescheduled' = (rescheduled \/ (DeadlineChanged(props._endTimestamp, newEnd)
                                        /\ _countdownInterval \in countdownLoops))
    /\ UNCHANGED <<now, ticks>>

\* The component is deactivated: componentWillUnmount.  A repeated deactivation
\* runs the handler again on the unmounted component.
Unmount ==
    /\ phase \in {"mounted", "unmounted"}
    /\ Commit([componentWillUnmount(Self) EXCEPT !.phase = "unmounted"])
    /\ lastOp' = "componentWillUnmount"
    /\ UNCHANGED <<now, ticks, changes, deadlineSeen, rescheduled>>

\* One period passes: every scheduled interval becomes due.  The constructor and
\* componentDidMount run in the same commit, so no period passes between them.
AdvanceClock ==
    /\ phase # "constructed"
    /\ ticks < MaxTicks
    /\ now' = now + IntervalMs
    /\ ticks' = ticks + 1
    /\ due' = elapsedLoops \cup countdownLoops
    /\ lastOp' = "clock"
    /\ UNCHANGED <<props, state, published, _interval, _countdownInterval, elapsedLoops,
                   countdownLoops, nextId, changes, phase, warnings, terminates,
                   deadlineSeen, rescheduled>>

\* The browser runs the pending callback of an elapsed interval.
ElapsedTick(id) ==
    /\ id \in due \cap elapsedLoops
    /\ Commit(elapsedCallback([Self EXCEPT !.due = @ \ {id}], now))
    /\ lastOp' = "elapsedTick"
    /\ UNCHANGED <<now, ticks, changes, deadlineSeen, rescheduled>>

\* The browser runs the pending callback of a countdown interval.
CountdownTick(id) ==
    /\ id \in due \cap countdownLoops
    /\ Commit(countdownCallback([Self EXCEPT !.due = @ \ {id}], now))
    /\ lastOp' = "countdownTick"
    /\ UNCHANGED <<now, ticks, changes, deadlineSeen, rescheduled>>

PropsChanges ==
    \E s \in StartTimestamps \cup {Absent}, e \in EndTimestamps \cup {Absent} :
       PropsChange(s, e)

ElapsedTicks == \E id \in due : ElapsedTick(id)

CountdownTicks == \E id \in due : CountdownTick(id)

Next ==
    \/ Mount
    \/ PropsChanges
    \/ Unmount
    \/ AdvanceClock
    \/ ElapsedTicks
    \/ CountdownTicks

Spec == Init /\ [][Next]_vars

\* The same machine with every pending callback run before the next period
\* starts: the ticks of a scheduled loop fire once per second, none is missed.
AdvanceClockSteady == due = {} /\ AdvanceClock

NextSteady ==
    \/ Mount
    \/ PropsChanges
    \/ Unmount
    \/ AdvanceClockSteady
    \/ ElapsedTicks
    \/ CountdownTicks

SpecSteady == Init /\ [][NextSteady]_vars

----------------------------------------------------------------------------
TypeOK ==
    /\ phase \in {"constructed", "mounted", "unmounted"}
    /\ ticks \in 0..MaxTicks
    /\ changes \in 0..MaxChanges
    /\ due \subseteq elapsedLoops \cup countdownLoops

----------------------------------------------------------------------------
(* Vocabulary of the properties *)

TickOps == {"elapsedTick", "countdownTick"}

ActiveLoops == elapsedLoops \cup countdownLoops

\* The countdown tick about to run computes a non-negative deadline - now.
CountdownFormats == ~Falsy(props._endTimestamp) /\ props._endTimestamp >= now

\* The countdown tick about to run computes a negative deadline - now.
CountdownSkips == ~Falsy(props._endTimestamp) /\ props._endTimestamp < now

\* The string a countdown tick running now formats.
CountdownValue == getLocalizedDurationFormatter(props._endTimestamp - now)

----------------------------------------------------------------------------
(* C1: after deactivation (componentWillUnmount) no tick loop of either    *)
(* mode is scheduled, no tick callback runs, and no warning or terminate   *)
(* effect is dispatched.                                                   *)
C1_NoTickAfterDeactivation ==
    [][phase' = "unmounted" =>
          /\ elapsedLoops' = {}
          /\ countdownLoops' = {}
          /\ phase = "unmounted" =>
                /\ lastOp' \notin TickOps
                /\ warnings' = warnings
                /\ terminates' = terminates]_vars

(* C2: a countdown tick that computes a negative deadline - now and skips  *)
(* the update dispatches neither the warning nor the terminate effect,     *)
(* whatever duration string was published last.                            *)
C2_SkippedTickDispatchesNothing ==
    [][(lastOp' = "countdownTick" /\ CountdownSkips) =>
          (warnings' = warnings /\ terminates' = terminates)]_vars

(* C3: endConference is dispatched at most once in a countdown lifecycle,  *)
(* and a step dispatches it if and only if that step is a countdown tick   *)
(* whose newly formatted remaining time is "00:01".                        *)
C3_TerminateIffOneSecondFormatted ==
    [][/\ terminates' <= 1
       /\ terminates' # terminates <=>
             (lastOp' = "countdownTick" /\ CountdownFormats /\ CountdownValue = "00:01")]_vars

(* C4: the warning notification is dispatched at most once in a countdown  *)
(* lifecycle, and only by a countdown tick whose newly formatted remaining *)
(* time is "00:30".                                                        *)
C4_WarningOnceAtThirtySeconds ==
    [][/\ warnings' <= 1
       /\ warnings' # warnings =>
             (lastOp' = "countdownTick" /\ CountdownFormats /\ CountdownValue = "00:30")]_vars

(* C5: at most one tick loop is scheduled in every reachable state, so the *)
(* elapsed loop and the countdown loop never run together.                 *)
C5_AtMostOneLoop == Cardinality(ActiveLoops) <= 1

\* The countdown loop has replaced an elapsed loop that had been running.
C5_Witness ==
    /\ lastOp = "componentDidUpdate"
    /\ ticks > 0
    /\ _interval # Undefined
    /\ elapsedLoops = {}
    /\ Cardinality(countdownLoops) = 1

(* C6: the step that dispatches endConference resets the published        *)
(* duration to formatDuration(0) and leaves no loop scheduled; from then   *)
(* on no tick runs, the published duration stays formatDuration(0) and no  *)
(* further warning or terminate effect is dispatched.                      *)
C6_QuiescentAfterTerminate ==
    [][/\ terminates' > terminates =>
             /\ published'.timerValue = getLocalizedDurationFormatter(0)
             /\ ActiveLoops' = {}
       /\ terminates > 0 =>
             /\ lastOp' \notin TickOps
             /\ published'.timerValue = getLocalizedDurationFormatter(0)
             /\ warnings' = warnings
             /\ terminates' = terminates]_vars

\* A countdown tick formatted "00:01" and terminated, and a period has passed
\* since with nothing left to run.
C6_Witness ==
    /\ terminates = 1
    /\ lastOp = "clock"
    /\ CountdownFormats
    /\ CountdownValue = "00:00"
    /\ published.timerValue = getLocalizedDurationFormatter(0)
    /\ state.timerValue = getLocalizedDurationFormatter(0)
    /\ ActiveLoops = {}
    /\ due = {}

(* C7: the first delivery of a present, changed deadline after mounting    *)
(* cancels the elapsed loop and schedules the countdown loop, publishing   *)
(* deadline - now when it is not negative; once such a deadline has been   *)
(* delivered no elapsed tick runs.                                         *)
C7_FirstDeadlineCancelsElapsed ==
    [][/\ (~deadlineSeen /\ deadlineSeen') =>
             /\ elapsedLoops' = {}
             /\ Cardinality(countdownLoops') = 1
             /\ props'._endTimestamp >= now =>
                   state'.timerValue =
                      getLocalizedDurationFormatter(props'._endTimestamp - now)
       /\ deadlineSeen => lastOp' # "elapsedTick"]_vars

\* The first deadline replaced the elapsed loop scheduled at mount by the
\* countdown, whose own tick has published deadline - now, a value that differs
\* from the elapsed time now - start.
C7_Witness ==
    /\ deadlineSeen
    /\ lastOp = "countdownTick"
    /\ ticks >= 2
    /\ elapsedLoops = {}
    /\ Cardinality(countdownLoops) = 1
    /\ props._startTimestamp # Absent
    /\ props._startTimestamp <= now
    /\ CountdownFormats
    /\ state.timerValue = CountdownValue
    /\ state.timerValue # getLocalizedDurationFormatter(now - props._startTimestamp)

(* C8: every componentDidUpdate whose new deadline is present and differs  *)
(* from the previous one leaves exactly one loop scheduled, a countdown    *)
(* loop that is not yet due, and publishes deadline - now when it is not   *)
(* negative.                                                               *)
C8_EveryDeadlineChangeRestartsCountdown ==
    [][(lastOp' = "componentDidUpdate"
          /\ DeadlineChanged(props._endTimestamp, props'._endTimestamp)) =>
          /\ elapsedLoops' = {}
          /\ Cardinality(countdownLoops') = 1
          /\ due' = {}
          /\ props'._endTimestamp >= now =>
                state'.timerValue =
                   getLocalizedDurationFormatter(props'._endTimestamp - now)]_vars

(* C9: each loop handle is non-null exactly when its loop is scheduled.    *)
C9_HandleIffScheduled ==
    /\ _interval # Undefined <=> _interval \in elapsedLoops
    /\ _countdownInterval # Undefined <=> _countdownInterval \in countdownLoops

C11_ActivatePublishesElapsed ==
    [][(lastOp' = "componentDidMount"
          /\ props._startTimestamp # Absent
          /\ props._startTimestamp <= now) =>
          /\ published'.timerValue =
                getLocalizedDurationFormatter(now - props._startTimestamp)
          /\ state'.timerValue = published'.timerValue
          /\ _interval' # Undefined
          /\ elapsedLoops' = {_interval'}
          /\ due' = {}]_vars

\* Mounted 65 seconds after the start timestamp: "01:05" is on display and the
\* elapsed loop is scheduled, with no tick run yet.
C11_Witness ==
    /\ lastOp = "componentDidMount"
    /\ props._startTimestamp = now - 65000
    /\ state.timerValue = "01:05"
    /\ elapsedLoops = {_interval}
    /\ due = {}

\* The strings formatDuration yields for the non-negative whole-second durations
\* a run can display.
NonNegativeDurations ==
    {getLocalizedDurationFormatter(IntervalMs * k) : k \in 0..(70 + MaxTicks)}

(* C12: a tick, elapsed or countdown, whose computed delta is negative     *)
(* leaves the published duration unchanged, and the published duration is  *)
(* always formatDuration(d) for some d >= 0.                               *)
C12_NegativeDeltaTickPublishesNothing ==
    [][/\ (lastOp' = "elapsedTick"
             /\ props._startTimestamp # Absent
             /\ now < props._startTimestamp) =>
             published'.timerValue = published.timerValue
       /\ (lastOp' = "countdownTick" /\ CountdownSkips) =>
             published'.timerValue = published.timerValue
       /\ published'.timerValue \in NonNegativeDurations]_vars

(* C13: once a countdown tick has run after the deadline has passed, the   *)
(* countdown has reached zero and its loop is no longer scheduled, for     *)
(* every deadline the countdown is started with and with no tick missed.   *)
C13_CountdownStopsAtZero ==
    (lastOp = "countdownTick" /\ CountdownSkips) => countdownLoops = {}

(* C14: starting a loop that is already scheduled creates no second        *)
(* interval and changes nothing: each mode has at most one scheduled       *)
(* interval, and a deadline change that arrives while the countdown loop   *)
(* is scheduled leaves the loop, its handle and the published values as    *)
(* they are.                                                               *)
C14_RestartIsNoOp ==
    [][/\ Cardinality(elapsedLoops') <= 1
       /\ Cardinality(countdownLoops') <= 1
       /\ (lastOp' = "componentDidUpdate"
             /\ DeadlineChanged(props._endTimestamp, props'._endTimestamp)
             /\ _countdownInterval \in countdownLoops) =>
             /\ countdownLoops' = countdownLoops
             /\ _countdownInterval' = _countdownInterval
             /\ nextId' = nextId
             /\ due' = due
             /\ published' = published]_vars

\* A second deadline has arrived while the countdown loop was scheduled: still
\* one loop, and the duration on display is not the new deadline's.
C14_Witness ==
    /\ rescheduled
    /\ lastOp = "componentDidUpdate"
    /\ Cardinality(countdownLoops) = 1
    /\ nextId = 3
    /\ CountdownFormats
    /\ published.timerValue # CountdownValue

(* C15: every deactivation call, first or repeated, leaves the elapsed     *)
(* loop unscheduled and schedules no loop; a repeated call changes nothing *)
(* of the component.                                                       *)
C15_DeactivationIdempotent ==
    [][lastOp' = "componentWillUnmount" =>
          /\ elapsedLoops' = {}
          /\ ActiveLoops' \subseteq ActiveLoops
          /\ nextId' = nextId
          /\ phase = "unmounted" =>
                UNCHANGED <<props, state, published, _interval, _countdownInterval,
                            elapsedLoops, countdownLoops, due, nextId, phase,
                            warnings, terminates>>]_vars

\* A deactivation call made on the unmounted component, after a tick had run
\* on it (React dropped that tick's setState).
C15_Witness ==
    /\ phase = "unmounted"
    /\ lastOp = "componentWillUnmount"
    /\ published.timerValue # state.timerValue

C17_TerminateAtMostOnce ==
    [][/\ terminates' <= 1
       /\ terminates >= 1 => countdownLoops' = {}]_vars

\* After the countdown terminated, a new deadline well in the future has been
\* delivered and no loop has been started for it.
C17_Witness ==
    /\ terminates = 1
    /\ lastOp = "componentDidUpdate"
    /\ CountdownFormats
    /\ props._endTimestamp - now > 2 * IntervalMs
    /\ countdownLoops = {}
    /\ published.timerValue = getLocalizedDurationFormatter(0)

(* C18: a countdown tick that computes a non-negative delta publishes      *)
(* formatDuration(deadline - now) for the deadline currently in the props, *)
(* also after the deadline has changed while the loop was running; the     *)
(* tick that dispatches endConference goes on to reset the duration.       *)
C18_TickReadsCurrentDeadline ==
    [][(lastOp' = "countdownTick" /\ CountdownFormats) =>
          \/ published'.timerValue = CountdownValue
          \/ /\ terminates' = terminates + 1
             /\ published'.timerValue = getLocalizedDurationFormatter(0)]_vars

\* The deadline changed while the countdown loop was running, and the next
\* tick has published the time remaining to the new deadline.
C18_Witness ==
    /\ rescheduled
    /\ lastOp = "countdownTick"
    /\ CountdownFormats
    /\ CountdownValue # "00:01"
    /\ published.timerValue = CountdownValue
    /\ state.timerValue = CountdownValue

====
